---- MODULE Spec2Model ----
(***************************************************************************)
(* Model of src/main.py: the SIFT logo matcher served over FastAPI.        *)
(*                                                                         *)
(* Threads: processing_loop (a daemon thread), the request handlers        *)
(* get_stats / stats_html / reload_logos, one mjpeg_generator per viewer,  *)
(* and shutdown_event.  Module globals are the shared state.  An image is  *)
(* abstracted to the features SIFT finds in it: a sequence of              *)
(* <<position, descriptor>> pairs; a descriptor is an integer and the      *)
(* distance between two descriptors is their absolute difference.          *)
(***************************************************************************)
EXTENDS Integers, Sequences, FiniteSets, TLC

\* ---------------------------------------------------------------- bounds
MaxCycles == 2      \* frames the source delivers
MaxReloads == 1     \* POST /reload-logos requests
MaxTime == 2        \* last value of the wall clock
MaxChunks == 1      \* chunks one viewer pulls
NumViewers == 1     \* concurrent GET /stream viewers
NumConcurrent == 2  \* viewers of the stream system with several viewers
ViewChunks == 2     \* chunks each of them pulls
TwoReloads == 2     \* requests of the system with successive reloads
MaxFeatures == 3    \* features of an image drawn for the matcher
MaxDescriptor == 3  \* largest descriptor value drawn for the matcher

\* ------------------------------------------------------- program constants
RATIO_NUM == 67     \* RATIO_THRESH = 0.67 = RATIO_NUM / RATIO_DEN
RATIO_DEN == 100
KNN == 2            \* k of knnMatch
FPS_WINDOW == 1     \* seconds of the FPS window

None == <<>>           \* Python's None; Some(x) is a value that may be None
Some(x) == <<x>>
Free == "free"
Slots == {1, 2}
Viewers == 1..NumViewers

\* ------------------------------------------------------------ the images
Blank == <<>>
ImgA == << <<1, 2>>, <<2, 9>>, <<4, 3>> >>
ImgB == << <<3, 2>> >>
\* What load_logos finds at LOGO1_PATH and LOGO2_PATH.
Logo1AtStartup == ImgA
Logo2AtStartup == ImgB
FrameA == << <<5, 2>>, <<6, 3>> >>
Frames == {Blank, FrameA}
MemValues == {5}

\* An uploaded file: its bytes decode to an image or to nothing.
NoFile == <<>>
File(content) == <<"bytes", content>>
Files == {NoFile, File(None), File(Some(Blank))}
\* The images on disk, by path; "" is no path given.
Paths == {"", "missing.jpg", "a.jpg"}

VARIABLES
    stop_event,     \* threading.Event
    cap_open,       \* cap.isOpened()
    cap_released,   \* cap.release() was called
    clock,          \* time.time()
    logo_img,       \* logo1_img, logo2_img
    kp,             \* kp1, kp2
    desc,           \* desc1, desc2
    stats_lock,     \* holder of stats_lock, or Free
    frame_lock,     \* holder of frame_lock, or Free
    shared_stats,   \* the dict
    stats_cyc,      \* the cycle that wrote each field of shared_stats
    last_frame,     \* None or the published frame
    loop,           \* processing_loop: its position and locals
    reader,         \* get_stats / stats_html: position and the copy taken
    reload,         \* reload_logos: position, locals and response
    viewer          \* mjpeg_generator per viewer

vars == <<stop_event, cap_open, cap_released, clock, logo_img, kp, desc,
          stats_lock, frame_lock, shared_stats, stats_cyc, last_frame,
          loop, reader, reload, viewer>>

\* --------------------------------------------------------- pure functions
Abs(x) == IF x < 0 THEN -x ELSE x

Min(a, b) == IF a < b THEN a ELSE b

\* sift.detectAndCompute(img, None): the keypoints, and the descriptors or
\* None when the image has no feature.
DetectKp(img) == [i \in 1..Len(img) |-> img[i][1]]

DetectDesc(img) == IF Len(img) = 0 THEN None ELSE [i \in 1..Len(img) |-> img[i][2]]

\* The distance of two descriptors.
Distance(a, b) == Abs(a - b)

\* The train indexes nearer to query descriptor q than index j, ties broken
\* by index: the rank of j among the neighbours of q.
Rank(q, train, j) ==
    Cardinality({i \in 1..Len(train) :
        \/ Distance(q, train[i]) < Distance(q, train[j])
        \/ Distance(q, train[i]) = Distance(q, train[j]) /\ i < j})

\* One result set of knnMatch: up to k neighbours of q by ascending distance.
Neighbours(q, qi, train, k) ==
    [r \in 1..Min(k, Len(train)) |->
        LET j == CHOOSE i \in 1..Len(train) : Rank(q, train, i) = r - 1
        IN  [queryIdx |-> qi, trainIdx |-> j, distance |-> Distance(q, train[j])]]

\* matcher.knnMatch(query, train, k): one result set per query descriptor.
\* OpenCV takes a None query for an empty matrix and returns no result set
\* for it (DescriptorMatcher::knnMatch returns at once on an empty query).
knnMatch(query, train, k) ==
    IF query = None THEN <<>>
    ELSE [qi \in 1..Len(query) |-> Neighbours(query[qi], qi, train, k)]

\* A ratio test that also keeps a best match exactly at the threshold.
RatioTestNotStrict(m) ==
    /\ Len(m) = 2
    /\ m[1].distance * RATIO_DEN <= RATIO_NUM * m[2].distance

\* The ratio test of one result set.
RatioTest(m) ==
    /\ Len(m) = 2
    /\ m[1].distance * RATIO_DEN < RATIO_NUM * m[2].distance

RECURSIVE Filter(_, _)
Filter(matches, i) ==
    IF i > Len(matches) THEN <<>>
    ELSE IF RatioTest(matches[i]) THEN <<matches[i][1]>> \o Filter(matches, i + 1)
         ELSE Filter(matches, i + 1)

\* good = [m[0] for m in matches if len(m) == 2 and ...]
GoodMatches(query, train) == Filter(knnMatch(query, train, KNN), 1)

\* cv2.drawMatches raises when a match indexes past the keypoints given.
DrawFails(good, kps, kps_frame) ==
    \E i \in 1..Len(good) :
        \/ good[i].queryIdx > Len(kps)
        \/ good[i].trainIdx > Len(kps_frame)

\* ------------------------------------------------------------------ Init
LoopInit == [pc |-> "top", cyc |-> 0, frame |-> Blank, kp_frame |-> <<>>,
             desc_frame |-> None, good |-> <<<<>>, <<>>>>,
             used_desc |-> <<None, None>>, used_img |-> <<Blank, Blank>>,
             used_kp |-> <<<<>>, <<>>>>, out_frame |-> None,
             fps_counter |-> 0, last_fps_time |-> 1, now |-> 1]

\* limit: the requests the client will send.
ReloadInit == [pc |-> "idle", new_logo |-> <<None, None>>, response |-> "none",
               before |-> None, count |-> 0, limit |-> MaxReloads]

\* pulls: the chunks the viewer's client will pull from its generator.
ViewerInit == [pc |-> "off", frame |-> None, chunks |-> 0, last_chunk |-> None,
               pulls |-> MaxChunks]

Init ==
    /\ stop_event = FALSE
    /\ cap_open = TRUE
    /\ cap_released = FALSE
    /\ clock = 1
    /\ logo_img = <<Logo1AtStartup, Logo2AtStartup>>
    /\ kp = <<DetectKp(Logo1AtStartup), DetectKp(Logo2AtStartup)>>
    /\ desc = <<DetectDesc(Logo1AtStartup), DetectDesc(Logo2AtStartup)>>
    /\ stats_lock = Free
    /\ frame_lock = Free
    /\ shared_stats = [fps |-> <<0, 1>>, logo1_matches |-> 0, logo2_matches |-> 0,
                       last_update |-> 0, mem_mb |-> 0]
    /\ stats_cyc = [logo1_matches |-> 0, logo2_matches |-> 0, last_update |-> 0]
    /\ last_frame = None
    /\ loop = LoopInit
    /\ reader = [pc |-> "idle", copy |-> None]
    /\ reload = ReloadInit
    /\ viewer = [v \in Viewers |-> ViewerInit]

\* ------------------------------------------------------- processing_loop
\* while not stop_event.is_set(): if cap is None or not cap.isOpened(): ...
LoopTop ==
    /\ loop.pc = "top"
    /\ loop' = [loop EXCEPT !.pc = IF stop_event THEN "release"
                                  ELSE IF ~cap_open THEN "wait_open"
                                  ELSE "read"]
    /\ UNCHANGED <<stop_event, cap_open, cap_released, clock, logo_img, kp,
                   desc, stats_lock, frame_lock, shared_stats, stats_cyc,
                   last_frame, reader, reload, viewer>>

\* A loop that gives up when the source is not open.
LoopWaitOpenGiveUp ==
    /\ loop.pc = "wait_open"
    /\ loop' = [loop EXCEPT !.pc = "release"]
    /\ UNCHANGED <<stop_event, cap_open, cap_released, clock, logo_img, kp,
                   desc, stats_lock, frame_lock, shared_stats, stats_cyc,
                   last_frame, reader, reload, viewer>>

\* time.sleep(0.1); continue
LoopWaitOpen ==
    /\ loop.pc = "wait_open"
    /\ loop' = [loop EXCEPT !.pc = "top"]
    /\ UNCHANGED <<stop_event, cap_open, cap_released, clock, logo_img, kp,
                   desc, stats_lock, frame_lock, shared_stats, stats_cyc,
                   last_frame, reader, reload, viewer>>

\* A failed read taken for a processed frame: no continue after the sleep.
LoopReadAbsentCounted ==
    /\ loop.pc = "read"
    /\ loop' = [loop EXCEPT !.pc = "fps"]
    /\ UNCHANGED <<stop_event, cap_open, cap_released, clock, logo_img, kp,
                   desc, stats_lock, frame_lock, shared_stats, stats_cyc,
                   last_frame, reader, reload, viewer>>

\* ret, frame = cap.read(), the read failing: if not ret or frame is None
LoopReadAbsent ==
    /\ loop.pc = "read"
    /\ loop' = [loop EXCEPT !.pc = "backoff"]
    /\ UNCHANGED <<stop_event, cap_open, cap_released, clock, logo_img, kp,
                   desc, stats_lock, frame_lock, shared_stats, stats_cyc,
                   last_frame, reader, reload, viewer>>

\* ret, frame = cap.read(), a frame arriving on an open handle
LoopReadFrame ==
    /\ loop.pc = "read"
    /\ cap_open
    /\ loop.cyc < MaxCycles
    /\ \E f \in Frames :
        loop' = [loop EXCEPT !.pc = "extract", !.frame = f, !.cyc = @ + 1]
    /\ UNCHANGED <<stop_event, cap_open, cap_released, clock, logo_img, kp,
                   desc, stats_lock, frame_lock, shared_stats, stats_cyc,
                   last_frame, reader, reload, viewer>>

\* time.sleep(0.02); continue
LoopBackoff ==
    /\ loop.pc = "backoff"
    /\ loop' = [loop EXCEPT !.pc = "top"]
    /\ UNCHANGED <<stop_event, cap_open, cap_released, clock, logo_img, kp,
                   desc, stats_lock, frame_lock, shared_stats, stats_cyc,
                   last_frame, reader, reload, viewer>>

\* An extraction without the test of desc_frame: matching always follows.
LoopExtractNoTest ==
    /\ loop.pc = "extract"
    /\ loop' = [loop EXCEPT !.kp_frame = DetectKp(loop.frame),
                            !.desc_frame = DetectDesc(loop.frame),
                            !.pc = "match1"]
    /\ UNCHANGED <<stop_event, cap_open, cap_released, clock, logo_img, kp,
                   desc, stats_lock, frame_lock, shared_stats, stats_cyc,
                   last_frame, reader, reload, viewer>>

\* frame = cv2.resize(...); kp_frame, desc_frame = sift.detectAndCompute(frame);
\* if desc_frame is not None
LoopExtract ==
    /\ loop.pc = "extract"
    /\ loop' = [loop EXCEPT !.kp_frame = DetectKp(loop.frame),
                            !.desc_frame = DetectDesc(loop.frame),
                            !.pc = IF DetectDesc(loop.frame) # None
                                   THEN "match1" ELSE "fps"]
    /\ UNCHANGED <<stop_event, cap_open, cap_released, clock, logo_img, kp,
                   desc, stats_lock, frame_lock, shared_stats, stats_cyc,
                   last_frame, reader, reload, viewer>>

\* matches = matcher.knnMatch(desc_s, desc_frame, k=2); good = [...]
LoopMatch(s) ==
    /\ loop.pc = (IF s = 1 THEN "match1" ELSE "match2")
    /\ loop' = [loop EXCEPT !.good[s] = GoodMatches(desc[s], loop.desc_frame),
                            !.used_desc[s] = desc[s],
                            !.pc = IF s = 1 THEN "match2" ELSE "draw1"]
    /\ UNCHANGED <<stop_event, cap_open, cap_released, clock, logo_img, kp,
                   desc, stats_lock, frame_lock, shared_stats, stats_cyc,
                   last_frame, reader, reload, viewer>>

\* The composited frame: the hstack of the two match views with the counts
\* written over it.
Composite(cyc, good) == [cyc |-> cyc, l1 |-> Len(good[1]), l2 |-> Len(good[2])]

\* img_matches = cv2.drawMatches(logo_img, kp, frame, kp_frame, good, ...);
\* after the second: resize, hstack, putText.  A raise ends the thread.
LoopDraw(s) ==
    /\ loop.pc = (IF s = 1 THEN "draw1" ELSE "draw2")
    /\ LET fails == DrawFails(loop.good[s], kp[s], loop.kp_frame)
       IN  loop' = [loop EXCEPT
                !.used_img[s] = logo_img[s],
                !.used_kp[s] = kp[s],
                !.out_frame = IF s = 2 /\ ~fails
                              THEN Some(Composite(loop.cyc, loop.good)) ELSE @,
                !.pc = IF fails THEN (IF s = 1 THEN "raised1" ELSE "raised2")
                       ELSE IF s = 1 THEN "draw2" ELSE "lock_stats"]
    /\ UNCHANGED <<stop_event, cap_open, cap_released, clock, logo_img, kp,
                   desc, stats_lock, frame_lock, shared_stats, stats_cyc,
                   last_frame, reader, reload, viewer>>

\* with stats_lock: (entering)
LoopLockStats ==
    /\ loop.pc = "lock_stats"
    /\ stats_lock = Free
    /\ stats_lock' = "loop"
    /\ loop' = [loop EXCEPT !.pc = "w_logo1"]
    /\ UNCHANGED <<stop_event, cap_open, cap_released, clock, logo_img, kp,
                   desc, frame_lock, shared_stats, stats_cyc,
                   last_frame, reader, reload, viewer>>

\* shared_stats["logo1_matches"] = len(good1)
LoopWriteLogo1 ==
    /\ loop.pc = "w_logo1"
    /\ shared_stats' = [shared_stats EXCEPT !.logo1_matches = Len(loop.good[1])]
    /\ stats_cyc' = [stats_cyc EXCEPT !.logo1_matches = loop.cyc]
    /\ loop' = [loop EXCEPT !.pc = "w_logo2"]
    /\ UNCHANGED <<stop_event, cap_open, cap_released, clock, logo_img, kp,
                   desc, stats_lock, frame_lock, last_frame, reader, reload, viewer>>

\* shared_stats["logo2_matches"] = len(good2)
LoopWriteLogo2 ==
    /\ loop.pc = "w_logo2"
    /\ shared_stats' = [shared_stats EXCEPT !.logo2_matches = Len(loop.good[2])]
    /\ stats_cyc' = [stats_cyc EXCEPT !.logo2_matches = loop.cyc]
    /\ loop' = [loop EXCEPT !.pc = "w_update"]
    /\ UNCHANGED <<stop_event, cap_open, cap_released, clock, logo_img, kp,
                   desc, stats_lock, frame_lock, last_frame, reader, reload, viewer>>

\* shared_stats["last_update"] = time.time()
LoopWriteUpdate ==
    /\ loop.pc = "w_update"
    /\ shared_stats' = [shared_stats EXCEPT !.last_update = clock]
    /\ stats_cyc' = [stats_cyc EXCEPT !.last_update = loop.cyc]
    /\ loop' = [loop EXCEPT !.pc = "w_mem"]
    /\ UNCHANGED <<stop_event, cap_open, cap_released, clock, logo_img, kp,
                   desc, stats_lock, frame_lock, last_frame, reader, reload, viewer>>

\* A cycle that ends after the statistics, without publishing its frame.
LoopWriteMemSkipFrame ==
    /\ loop.pc = "w_mem"
    /\ \E m \in MemValues : shared_stats' = [shared_stats EXCEPT !.mem_mb = m]
    /\ stats_lock' = Free
    /\ loop' = [loop EXCEPT !.pc = "fps"]
    /\ UNCHANGED <<stop_event, cap_open, cap_released, clock, logo_img, kp,
                   desc, frame_lock, stats_cyc, last_frame, reader, reload, viewer>>

\* shared_stats["mem_mb"] = update_mem_stat(), and the with block ends
LoopWriteMem ==
    /\ loop.pc = "w_mem"
    /\ \E m \in MemValues : shared_stats' = [shared_stats EXCEPT !.mem_mb = m]
    /\ stats_lock' = Free
    /\ loop' = [loop EXCEPT !.pc = "lock_frame"]
    /\ UNCHANGED <<stop_event, cap_open, cap_released, clock, logo_img, kp,
                   desc, frame_lock, stats_cyc, last_frame, reader, reload, viewer>>

\* with frame_lock: (entering)
LoopLockFrame ==
    /\ loop.pc = "lock_frame"
    /\ frame_lock = Free
    /\ frame_lock' = "loop"
    /\ loop' = [loop EXCEPT !.pc = "w_frame"]
    /\ UNCHANGED <<stop_event, cap_open, cap_released, clock, logo_img, kp,
                   desc, stats_lock, shared_stats, stats_cyc,
                   last_frame, reader, reload, viewer>>

\* last_frame = out_frame, and the with block ends
LoopWriteFrame ==
    /\ loop.pc = "w_frame"
    /\ last_frame' = loop.out_frame
    /\ frame_lock' = Free
    /\ loop' = [loop EXCEPT !.pc = "fps"]
    /\ UNCHANGED <<stop_event, cap_open, cap_released, clock, logo_img, kp,
                   desc, stats_lock, shared_stats, stats_cyc, reader, reload, viewer>>

\* An accounting that commits after every cycle, whatever time has elapsed.
LoopFpsAlways ==
    /\ loop.pc = "fps"
    /\ loop' = [LoopInit EXCEPT !.cyc = loop.cyc,
                                !.fps_counter = loop.fps_counter + 1,
                                !.last_fps_time = loop.last_fps_time,
                                !.now = clock,
                                !.pc = "lock_fps"]
    /\ UNCHANGED <<stop_event, cap_open, cap_released, clock, logo_img, kp,
                   desc, stats_lock, frame_lock, shared_stats, stats_cyc,
                   last_frame, reader, reload, viewer>>

\* fps_counter += 1; now = time.time(); if now - last_fps_time >= 1.0.  The
\* cycle's locals are dead from here on and go back to their first values.
LoopFps ==
    /\ loop.pc = "fps"
    /\ loop' = [LoopInit EXCEPT !.cyc = loop.cyc,
                                !.fps_counter = loop.fps_counter + 1,
                                !.last_fps_time = loop.last_fps_time,
                                !.now = clock,
                                !.pc = IF clock - loop.last_fps_time >= FPS_WINDOW
                                       THEN "lock_fps" ELSE "top"]
    /\ UNCHANGED <<stop_event, cap_open, cap_released, clock, logo_img, kp,
                   desc, stats_lock, frame_lock, shared_stats, stats_cyc,
                   last_frame, reader, reload, viewer>>

\* with stats_lock: (entering, for the FPS commit)
LoopLockFps ==
    /\ loop.pc = "lock_fps"
    /\ stats_lock = Free
    /\ stats_lock' = "loop"
    /\ loop' = [loop EXCEPT !.pc = "w_fps"]
    /\ UNCHANGED <<stop_event, cap_open, cap_released, clock, logo_img, kp,
                   desc, frame_lock, shared_stats, stats_cyc,
                   last_frame, reader, reload, viewer>>

\* shared_stats["fps"] = fps_counter / (now - last_fps_time): the quotient
\* kept as <<numerator, denominator>>
FpsValue(counter, elapsed) == <<counter, elapsed>>

\* the FPS commit, the with block ending; fps_counter = 0; last_fps_time = now
LoopWriteFps ==
    /\ loop.pc = "w_fps"
    /\ shared_stats' = [shared_stats EXCEPT
            !.fps = FpsValue(loop.fps_counter, loop.now - loop.last_fps_time)]
    /\ stats_lock' = Free
    /\ loop' = [loop EXCEPT !.fps_counter = 0, !.last_fps_time = loop.now,
                            !.pc = "top"]
    /\ UNCHANGED <<stop_event, cap_open, cap_released, clock, logo_img, kp,
                   desc, frame_lock, stats_cyc, last_frame, reader, reload, viewer>>

\* if cap is not None: cap.release()
LoopRelease ==
    /\ loop.pc = "release"
    /\ cap_released' = TRUE
    /\ cap_open' = FALSE
    /\ loop' = [loop EXCEPT !.pc = "done"]
    /\ UNCHANGED <<stop_event, clock, logo_img, kp,
                   desc, stats_lock, frame_lock, shared_stats, stats_cyc,
                   last_frame, reader, reload, viewer>>

LoopStep ==
    \/ LoopTop \/ LoopWaitOpen \/ LoopReadAbsent \/ LoopReadFrame \/ LoopBackoff
    \/ LoopExtract \/ LoopMatch(1) \/ LoopMatch(2) \/ LoopDraw(1) \/ LoopDraw(2)
    \/ LoopLockStats \/ LoopWriteLogo1 \/ LoopWriteLogo2 \/ LoopWriteUpdate
    \/ LoopWriteMem \/ LoopLockFrame \/ LoopWriteFrame \/ LoopFps \/ LoopLockFps
    \/ LoopWriteFps \/ LoopRelease

\* ------------------------------------------------------------ environment
\* The wall clock advances.
Tick ==
    /\ clock < MaxTime
    /\ clock' = clock + 1
    /\ UNCHANGED <<stop_event, cap_open, cap_released, logo_img, kp, desc,
                   stats_lock, frame_lock, shared_stats, stats_cyc, last_frame,
                   loop, reader, reload, viewer>>

\* The network stream drops: the handle is no longer open, and nothing
\* reopens it.
CapDrop ==
    /\ cap_open
    /\ cap_open' = FALSE
    /\ UNCHANGED <<stop_event, cap_released, clock, logo_img, kp, desc,
                   stats_lock, frame_lock, shared_stats, stats_cyc, last_frame,
                   loop, reader, reload, viewer>>

\* stop_event.set()
shutdown_event ==
    /\ ~stop_event
    /\ stop_event' = TRUE
    /\ UNCHANGED <<cap_open, cap_released, clock, logo_img, kp, desc,
                   stats_lock, frame_lock, shared_stats, stats_cyc, last_frame,
                   loop, reader, reload, viewer>>

\* ------------------------------------------------- get_stats, stats_html
\* A reader that does not wait for stats_lock.
ReaderLockNoWait(endpoint) ==
    /\ reader.pc = "idle"
    /\ reader' = [reader EXCEPT !.pc = endpoint]
    /\ UNCHANGED <<stop_event, cap_open, cap_released, clock, logo_img, kp, desc,
                   stats_lock, frame_lock, shared_stats, stats_cyc, last_frame,
                   loop, reload, viewer>>

\* with stats_lock: (entering), in either endpoint
ReaderLock(endpoint) ==
    /\ reader.pc = "idle"
    /\ stats_lock = Free
    /\ stats_lock' = "reader"
    /\ reader' = [reader EXCEPT !.pc = endpoint]
    /\ UNCHANGED <<stop_event, cap_open, cap_released, clock, logo_img, kp, desc,
                   frame_lock, shared_stats, stats_cyc, last_frame,
                   loop, reload, viewer>>

\* shared_stats.copy(), the with block ending
ReaderCopy(endpoint) ==
    /\ reader.pc = endpoint
    /\ reader' = [pc |-> "idle",
                  copy |-> Some([data |-> shared_stats, cyc |-> stats_cyc])]
    /\ stats_lock' = IF stats_lock = "reader" THEN Free ELSE stats_lock
    /\ UNCHANGED <<stop_event, cap_open, cap_released, clock, logo_img, kp, desc,
                   frame_lock, shared_stats, stats_cyc, last_frame,
                   loop, reload, viewer>>

get_stats == ReaderLock("get_stats") \/ ReaderCopy("get_stats")

stats_html == ReaderLock("stats_html") \/ ReaderCopy("stats_html")

\* ----------------------------------------------------------- reload_logos
\* cv2.imdecode of an uploaded file
imdecode(file) == file[2]

\* cv2.imread of a path
imread(path) == IF path = "a.jpg" THEN Some(ImgA) ELSE None

\* new_logo: the file if one was sent, else the path if one was given
Decode(file, path) ==
    IF file # NoFile THEN imdecode(file)
    ELSE IF path # "" THEN imread(path)
    ELSE None

Registry == [img |-> logo_img, kp |-> kp, desc |-> desc]

\* A check that rejects as soon as one slot has no image.
RejectsEither(new1, new2) == new1 = None \/ new2 = None

\* A check that never rejects.
RejectsNever(new1, new2) == FALSE

\* if new_logo1 is None and new_logo2 is None: raise HTTPException(400)
Rejects(new1, new2) == new1 = None /\ new2 = None

\* The request arrives, both slots are decoded, and the request is either
\* rejected or goes on to write the registry.
ReloadCall ==
    /\ reload.pc = "idle"
    /\ reload.count < reload.limit
    /\ \E f1 \in Files, f2 \in Files, p1 \in Paths, p2 \in Paths :
        LET new1 == Decode(f1, p1)
            new2 == Decode(f2, p2)
        IN  reload' = [pc |-> IF Rejects(new1, new2) THEN "ret" ELSE "img1",
                       new_logo |-> <<new1, new2>>,
                       response |-> IF Rejects(new1, new2) THEN "400" ELSE "none",
                       before |-> Some(Registry),
                       count |-> reload.count + 1,
                       limit |-> reload.limit]
    /\ UNCHANGED <<stop_event, cap_open, cap_released, clock, logo_img, kp, desc,
                   stats_lock, frame_lock, shared_stats, stats_cyc, last_frame,
                   loop, reader, viewer>>

\* if new_logo is not None: logo_img = new_logo; without one, on to the next
\* slot, or return {"status": "ok"}
ReloadSetImg(s) ==
    /\ reload.pc = (IF s = 1 THEN "img1" ELSE "img2")
    /\ IF reload.new_logo[s] # None
       THEN /\ logo_img' = [logo_img EXCEPT ![s] = reload.new_logo[s][1]]
            /\ reload' = [reload EXCEPT !.pc = IF s = 1 THEN "feat1" ELSE "feat2"]
       ELSE /\ logo_img' = logo_img
            /\ reload' = [reload EXCEPT !.pc = IF s = 1 THEN "img2" ELSE "ret",
                                         !.response = IF s = 1 THEN @ ELSE "ok"]
    /\ UNCHANGED <<stop_event, cap_open, cap_released, clock, kp, desc,
                   stats_lock, frame_lock, shared_stats, stats_cyc, last_frame,
                   loop, reader, viewer>>

\* A reload that also drops the published frame.
ReloadSetFeatClearFrame(s) ==
    /\ reload.pc = (IF s = 1 THEN "feat1" ELSE "feat2")
    /\ kp' = [kp EXCEPT ![s] = DetectKp(logo_img[s])]
    /\ desc' = [desc EXCEPT ![s] = DetectDesc(logo_img[s])]
    /\ last_frame' = None
    /\ reload' = [reload EXCEPT !.pc = IF s = 1 THEN "img2" ELSE "ret",
                                !.response = IF s = 1 THEN @ ELSE "ok"]
    /\ UNCHANGED <<stop_event, cap_open, cap_released, clock, logo_img,
                   stats_lock, frame_lock, shared_stats, stats_cyc,
                   loop, reader, viewer>>

\* A reload that adds the new features to the slot's old ones.
ReloadSetFeatAppend(s) ==
    /\ reload.pc = (IF s = 1 THEN "feat1" ELSE "feat2")
    /\ kp' = [kp EXCEPT ![s] = @ \o DetectKp(logo_img[s])]
    /\ desc' = [desc EXCEPT ![s] = @ \o DetectDesc(logo_img[s])]
    /\ reload' = [reload EXCEPT !.pc = IF s = 1 THEN "img2" ELSE "ret",
                                !.response = IF s = 1 THEN @ ELSE "ok"]
    /\ UNCHANGED <<stop_event, cap_open, cap_released, clock, logo_img,
                   stats_lock, frame_lock, shared_stats, stats_cyc, last_frame,
                   loop, reader, viewer>>

\* kp, desc = sift.detectAndCompute(logo_img, None); then the next slot, or
\* return {"status": "ok"}
ReloadSetFeat(s) ==
    /\ reload.pc = (IF s = 1 THEN "feat1" ELSE "feat2")
    /\ kp' = [kp EXCEPT ![s] = DetectKp(logo_img[s])]
    /\ desc' = [desc EXCEPT ![s] = DetectDesc(logo_img[s])]
    /\ reload' = [reload EXCEPT !.pc = IF s = 1 THEN "img2" ELSE "ret",
                                !.response = IF s = 1 THEN @ ELSE "ok"]
    /\ UNCHANGED <<stop_event, cap_open, cap_released, clock, logo_img,
                   stats_lock, frame_lock, shared_stats, stats_cyc, last_frame,
                   loop, reader, viewer>>

\* The response is sent and the handler's locals are gone.
ReloadReturn ==
    /\ reload.pc = "ret"
    /\ reload' = [ReloadInit EXCEPT !.count = reload.count,
                                    !.limit = reload.limit]
    /\ UNCHANGED <<stop_event, cap_open, cap_released, clock, logo_img, kp, desc,
                   stats_lock, frame_lock, shared_stats, stats_cyc, last_frame,
                   loop, reader, viewer>>

reload_logos ==
    \/ ReloadCall
    \/ ReloadReturn
    \/ ReloadSetImg(1) \/ ReloadSetFeat(1)
    \/ ReloadSetImg(2) \/ ReloadSetFeat(2)

\* -------------------------------------------------------- mjpeg_generator
\* GET /stream: a new generator for this viewer
stream_video(v) ==
    /\ viewer[v].pc = "off"
    /\ viewer' = [viewer EXCEPT ![v].pc = "check"]
    /\ UNCHANGED <<stop_event, cap_open, cap_released, clock, logo_img, kp, desc,
                   stats_lock, frame_lock, shared_stats, stats_cyc, last_frame,
                   loop, reader, reload>>

\* while not stop_event.is_set(): the viewer pulling the next chunk
ViewerCheck(v) ==
    /\ viewer[v].pc = "check"
    /\ viewer[v].chunks < viewer[v].pulls \/ stop_event
    /\ viewer' = [viewer EXCEPT ![v].pc = IF stop_event THEN "done" ELSE "lock"]
    /\ UNCHANGED <<stop_event, cap_open, cap_released, clock, logo_img, kp, desc,
                   stats_lock, frame_lock, shared_stats, stats_cyc, last_frame,
                   loop, reader, reload>>

\* A generator that does not wait for frame_lock.
ViewerLockNoWait(v) ==
    /\ viewer[v].pc = "lock"
    /\ viewer' = [viewer EXCEPT ![v].pc = "copy"]
    /\ UNCHANGED <<stop_event, cap_open, cap_released, clock, logo_img, kp, desc,
                   stats_lock, frame_lock, shared_stats, stats_cyc, last_frame,
                   loop, reader, reload>>

\* with frame_lock: (entering)
ViewerLock(v) ==
    /\ viewer[v].pc = "lock"
    /\ frame_lock = Free
    /\ frame_lock' = "viewer"
    /\ viewer' = [viewer EXCEPT ![v].pc = "copy"]
    /\ UNCHANGED <<stop_event, cap_open, cap_released, clock, logo_img, kp, desc,
                   stats_lock, shared_stats, stats_cyc, last_frame,
                   loop, reader, reload>>

\* A generator that encodes whatever it copied, without the test for None.
ViewerCopyNoTest(v) ==
    /\ viewer[v].pc = "copy"
    /\ frame_lock' = Free
    /\ viewer' = [viewer EXCEPT ![v].frame = last_frame, ![v].pc = "encode"]
    /\ UNCHANGED <<stop_event, cap_open, cap_released, clock, logo_img, kp, desc,
                   stats_lock, shared_stats, stats_cyc, last_frame,
                   loop, reader, reload>>

\* A generator that keeps frame_lock while it encodes.
ViewerCopyKeepLock(v) ==
    /\ viewer[v].pc = "copy"
    /\ viewer' = [viewer EXCEPT ![v].frame = last_frame,
                                ![v].pc = IF last_frame = None THEN "sleep"
                                          ELSE "encode"]
    /\ UNCHANGED <<stop_event, cap_open, cap_released, clock, logo_img, kp, desc,
                   stats_lock, frame_lock, shared_stats, stats_cyc, last_frame,
                   loop, reader, reload>>

\* frame = None if last_frame is None else last_frame.copy(), the with block
\* ending; if frame is None
ViewerCopy(v) ==
    /\ viewer[v].pc = "copy"
    /\ frame_lock' = Free
    /\ viewer' = [viewer EXCEPT ![v].frame = last_frame,
                                ![v].pc = IF last_frame = None THEN "sleep"
                                          ELSE "encode"]
    /\ UNCHANGED <<stop_event, cap_open, cap_released, clock, logo_img, kp, desc,
                   stats_lock, shared_stats, stats_cyc, last_frame,
                   loop, reader, reload>>

\* time.sleep(0.02); continue
ViewerSleep(v) ==
    /\ viewer[v].pc = "sleep"
    /\ viewer' = [viewer EXCEPT ![v].pc = "check"]
    /\ UNCHANGED <<stop_event, cap_open, cap_released, clock, logo_img, kp, desc,
                   stats_lock, frame_lock, shared_stats, stats_cyc, last_frame,
                   loop, reader, reload>>

\* ret, buffer = cv2.imencode(...); if not ret: continue
ViewerEncode(v) ==
    /\ viewer[v].pc = "encode"
    /\ \E ret \in BOOLEAN :
        viewer' = [viewer EXCEPT ![v].pc = IF ret THEN "yield" ELSE "check",
                                 ![v].frame = IF ret THEN @ ELSE None]
    /\ UNCHANGED <<stop_event, cap_open, cap_released, clock, logo_img, kp, desc,
                   stats_lock, frame_lock, shared_stats, stats_cyc, last_frame,
                   loop, reader, reload>>

\* yield (b"--frame..." + jpg_bytes + b"\r\n")
ViewerYield(v) ==
    /\ viewer[v].pc = "yield"
    /\ viewer' = [viewer EXCEPT ![v].pc = "check",
                                ![v].chunks = @ + 1,
                                ![v].frame = None,
                                ![v].last_chunk = viewer[v].frame]
    /\ UNCHANGED <<stop_event, cap_open, cap_released, clock, logo_img, kp, desc,
                   stats_lock, frame_lock, shared_stats, stats_cyc, last_frame,
                   loop, reader, reload>>

mjpeg_generator(v) ==
    \/ ViewerCheck(v) \/ ViewerLock(v) \/ ViewerCopy(v) \/ ViewerSleep(v)
    \/ ViewerEncode(v) \/ ViewerYield(v)

\* ------------------------------------------------------------------ Spec
\* The whole system.  Its state space is the product of all the threads; the
\* properties below are checked on the systems that follow it, each with the
\* loop, the environment and the endpoints the property is about.
Next ==
    \/ LoopStep
    \/ Tick
    \/ CapDrop
    \/ shutdown_event
    \/ get_stats
    \/ stats_html
    \/ reload_logos
    \/ \E v \in Viewers : stream_video(v) \/ mjpeg_generator(v)

Spec == Init /\ [][Next]_vars

\* The system with only the statistics endpoints in use.
NextStats ==
    \/ LoopStep
    \/ Tick
    \/ CapDrop
    \/ shutdown_event
    \/ get_stats
    \/ stats_html

SpecStats == Init /\ [][NextStats]_vars

\* The system with only the hot-reload endpoint in use.
NextReload ==
    \/ LoopStep
    \/ Tick
    \/ CapDrop
    \/ shutdown_event
    \/ reload_logos

SpecReload == Init /\ [][NextReload]_vars

\* The system with the stream and hot-reload endpoints in use, every running
\* thread being scheduled again and again: the loop thread, and a viewer's
\* generator while it is inside its with block.  A viewer may stop pulling
\* chunks, and no request has to arrive.
NextCancel ==
    \/ LoopStep
    \/ Tick
    \/ CapDrop
    \/ shutdown_event
    \/ reload_logos
    \/ \E v \in Viewers : stream_video(v) \/ mjpeg_generator(v)

SpecCancel ==
    /\ Init
    /\ [][NextCancel]_vars
    /\ WF_vars(LoopStep)
    /\ \A v \in Viewers : WF_vars(ViewerCopy(v))

\* The state after startup_event with logo1 found at LOGO1_PATH, the loop
\* thread, the reload handler and the viewers as given.
Startup(logo1, loop0, reload0, viewer0) ==
    /\ stop_event = FALSE
    /\ cap_open = TRUE
    /\ cap_released = FALSE
    /\ clock = 1
    /\ logo_img = <<logo1, Logo2AtStartup>>
    /\ kp = <<DetectKp(logo1), DetectKp(Logo2AtStartup)>>
    /\ desc = <<DetectDesc(logo1), DetectDesc(Logo2AtStartup)>>
    /\ stats_lock = Free
    /\ frame_lock = Free
    /\ shared_stats = [fps |-> <<0, 1>>, logo1_matches |-> 0, logo2_matches |-> 0,
                       last_update |-> 0, mem_mb |-> 0]
    /\ stats_cyc = [logo1_matches |-> 0, logo2_matches |-> 0, last_update |-> 0]
    /\ last_frame = None
    /\ loop = loop0
    /\ reader = [pc |-> "idle", copy |-> None]
    /\ reload = reload0
    /\ viewer = viewer0

\* No request handler is in the middle of a call: the statistics and reload
\* handlers are idle and every generator is between two chunks.
Quiet ==
    /\ reader.pc = "idle"
    /\ reload.pc = "idle"
    /\ \A v \in Viewers : viewer[v].pc \in {"off", "check", "done"}

\* The system with every endpoint in use by one client, which sends its next
\* request, or pulls its next chunk, once the call before has returned.  The
\* loop runs beside every call.
NextOneClient ==
    \/ LoopStep
    \/ Tick
    \/ CapDrop
    \/ shutdown_event
    \/ (reader.pc # "idle" \/ Quiet) /\ get_stats
    \/ (reader.pc # "idle" \/ Quiet) /\ stats_html
    \/ (reload.pc # "idle" \/ Quiet) /\ reload_logos
    \/ \E v \in Viewers :
        (viewer[v].pc \notin {"off", "check", "done"} \/ Quiet)
        /\ (stream_video(v) \/ mjpeg_generator(v))

SpecOneClient == Init /\ [][NextOneClient]_vars

\* The system with the statistics endpoints and the stream in use: every
\* thread that takes stats_lock or frame_lock.
NextLocks ==
    \/ LoopStep
    \/ Tick
    \/ CapDrop
    \/ shutdown_event
    \/ get_stats
    \/ stats_html
    \/ \E v \in Viewers : stream_video(v) \/ mjpeg_generator(v)

SpecLocks == Init /\ [][NextLocks]_vars

\* The system with several viewers on the stream, each pulling ViewChunks
\* chunks, and no other endpoint in use.
ConcurrentViewers == 1..NumConcurrent

InitView ==
    Startup(Logo1AtStartup, LoopInit, ReloadInit,
            [v \in ConcurrentViewers |-> [ViewerInit EXCEPT !.pulls = ViewChunks]])

NextView ==
    \/ LoopStep
    \/ Tick
    \/ CapDrop
    \/ shutdown_event
    \/ \E v \in ConcurrentViewers : stream_video(v) \/ mjpeg_generator(v)

SpecView == InitView /\ [][NextView]_vars

\* The system with the hot-reload endpoint called TwoReloads times, one call
\* after the other.
InitTwice ==
    Startup(Logo1AtStartup, LoopInit, [ReloadInit EXCEPT !.limit = TwoReloads],
            [v \in Viewers |-> ViewerInit])

SpecTwice == InitTwice /\ [][NextReload]_vars

\* The matcher on its own.  The logo found at LOGO1_PATH at startup and the
\* first frame read are any images of up to MaxFeatures features with
\* descriptors in 1..MaxDescriptor; the loop extracts and matches.
DescriptorSets ==
    UNION {[1..n -> 1..MaxDescriptor] : n \in 0..MaxFeatures}

\* The image whose features have these descriptors, at positions 1, 2, ...
ImageOf(descs) == [i \in 1..Len(descs) |-> <<i, descs[i]>>]

InitMatch ==
    \E A \in DescriptorSets, B \in DescriptorSets :
        Startup(ImageOf(A),
                [LoopInit EXCEPT !.pc = "extract", !.cyc = 1, !.frame = ImageOf(B)],
                ReloadInit, [v \in Viewers |-> ViewerInit])

NextMatch ==
    \/ LoopExtract
    \/ LoopMatch(1)
    \/ LoopMatch(2)

SpecMatch == InitMatch /\ [][NextMatch]_vars

\* ---------------------------------------------------------------- claims
\* The cycle that published the frame in the store; 0 before any.
FrameCyc == IF last_frame = None THEN 0 ELSE last_frame[1].cyc

\* The three per-cycle fields of a statistics record were written by the
\* cycle c.
WrittenBy(tags, c) ==
    /\ tags.logo1_matches = c
    /\ tags.logo2_matches = c
    /\ tags.last_update = c

\* C1: every snapshot a reader copies out has logo1_matches, logo2_matches
\* and last_update written by one and the same processing cycle.
C1_SnapshotNotTorn ==
    reader.copy # None =>
        \E c \in 0..MaxCycles : WrittenBy(reader.copy[1].cyc, c)

\* C1 witness: a reader holds the complete snapshot of cycle 1 while the loop
\* is in the middle of writing the statistics of cycle 2.
C1_Witness ==
    /\ reader.copy # None
    /\ WrittenBy(reader.copy[1].cyc, 1)
    /\ loop.pc = "w_update"
    /\ loop.cyc = 2
    /\ stats_cyc.logo1_matches = 2
    /\ stats_cyc.last_update = 1

\* C2: whenever a consumer can read the store (neither lock is held), the
\* frame in last_frame and the counts and timestamp in shared_stats were
\* produced by the same processing cycle.
C2_PublishAtomic ==
    (stats_lock = Free /\ frame_lock = Free) => WrittenBy(stats_cyc, FrameCyc)

\* The loop has called drawMatches for slot s in the cycle in progress.
Drawn(s) ==
    \/ loop.pc \in {"raised2", "lock_stats", "w_logo1", "w_logo2", "w_update",
                    "w_mem", "lock_frame", "w_frame"}
    \/ s = 1 /\ loop.pc \in {"draw2", "raised1"}

\* The image, keypoints and descriptors are those of one Reference Entry.
OneEntry(img, kps, descs) == kps = DetectKp(img) /\ descs = DetectDesc(img)

\* C3: within one cycle and for each slot, the descriptors matched against
\* and the image and keypoints drawn belong to one single Reference Entry.
C3_SwapAtomic ==
    \A s \in Slots :
        Drawn(s) => OneEntry(loop.used_img[s], loop.used_kp[s], loop.used_desc[s])

\* The processing_loop thread has exited: by returning or by a raise.
LoopExited == loop.pc \in {"done", "raised1", "raised2"}

\* C4: the loop terminates only on the stop signal: whenever the thread has
\* exited, stop_event is set.
C4_ExitOnlyOnStop == LoopExited => stop_event

\* The processing_loop thread is alive.
LoopRunning == ~LoopExited

\* C5: once stop_event is set, the running loop leaves its while loop and
\* releases the capture handle.
C5_StopReleases ==
    (stop_event /\ LoopRunning) ~> (loop.pc = "done" /\ cap_released)

\* The other slot.
Other(s) == 3 - s

\* Slot s of the registry holds the Reference Entry of image img.
HoldsEntry(s, img) == logo_img[s] = img /\ OneEntry(img, kp[s], desc[s])

\* Slot s of the registry is as it was when the request arrived.
SlotAsBefore(s) ==
    /\ logo_img[s] = reload.before[1].img[s]
    /\ kp[s] = reload.before[1].kp[s]
    /\ desc[s] = reload.before[1].desc[s]

\* C6: a reload with a decodable image for exactly one slot answers ok, has
\* replaced that slot's Reference Entry and has left the other slot as it was.
C6_PartialReload ==
    \A s \in Slots :
        (/\ reload.pc = "ret"
         /\ reload.new_logo[s] # None
         /\ reload.new_logo[Other(s)] = None)
        => /\ reload.response = "ok"
           /\ HoldsEntry(s, reload.new_logo[s][1])
           /\ SlotAsBefore(Other(s))

\* C6 witness: the request for slot 1 alone is answered, and slot 1 holds
\* another image than before.
C6_Witness ==
    /\ reload.pc = "ret"
    /\ reload.response = "ok"
    /\ reload.new_logo[1] # None
    /\ reload.new_logo[2] = None
    /\ logo_img[1] # reload.before[1].img[1]
    /\ kp[1] # reload.before[1].kp[1]

\* C7: a reload in which no slot yields an image answers 400 and leaves all
\* six registry variables as they were.
C7_RejectedReload ==
    (reload.pc = "ret" /\ reload.new_logo = <<None, None>>)
    => /\ reload.response = "400"
       /\ \A s \in Slots : SlotAsBefore(s)

\* C7 witness: a request without any decodable image has been answered 400
\* while the loop is matching against the registry.
C7_Witness ==
    /\ reload.pc = "ret"
    /\ reload.response = "400"
    /\ reload.new_logo = <<None, None>>
    /\ loop.pc = "draw1"

\* The FPS statistic is zero.
FpsIsZero == shared_stats.fps[1] = 0

\* C8: as long as every read has returned Absent (no frame has been read),
\* fps is 0 and last_update has its initial value.
C8_AbsentOnly ==
    loop.cyc = 0 => (FpsIsZero /\ shared_stats.last_update = 0)

\* C8 witness: a read has just returned Absent, no frame has ever been read,
\* and a whole FPS window has gone by.
C8_Witness ==
    /\ loop.cyc = 0
    /\ loop.pc = "backoff"
    /\ clock - loop.last_fps_time >= FPS_WINDOW

\* What a cycle publishes: the counts, the timestamp and the frame.
Published == <<shared_stats.logo1_matches, shared_stats.logo2_matches,
               shared_stats.last_update, stats_cyc, last_frame>>

\* C9: a cycle whose frame yields no descriptors goes from the extraction
\* straight to the FPS accounting without matching; only a cycle whose frame
\* has descriptors changes the published values; and the FPS accounting counts
\* the cycle and goes on to the next iteration.
C9_ZeroKeypointFrame ==
    [][/\ (loop.pc = "extract" /\ loop'.pc # "extract" /\ loop'.desc_frame = None)
          => (loop'.pc = "fps" /\ Published' = Published)
       /\ (Published' # Published) => (loop.desc_frame # None)
       /\ (loop.pc = "fps" /\ loop'.pc # "fps")
          => /\ loop'.fps_counter = loop.fps_counter + 1
             /\ loop'.pc \in {"top", "lock_fps"}
             /\ Published' = Published]_vars

\* C9 witness: cycle 1 published, cycle 2 read a frame without descriptors:
\* it has been counted, and the published values are still those of cycle 1.
C9_Witness ==
    /\ loop.pc = "top"
    /\ loop.cyc = 2
    /\ loop.fps_counter = 2
    /\ FrameCyc = 1
    /\ WrittenBy(stats_cyc, 1)

\* C10: when the Reference Entry drawn for a slot has no features, the cycle
\* completes (no step of it raises) with a match count of 0 for that slot.
C10_BlankReference ==
    \A s \in Slots :
        (Drawn(s) /\ loop.used_kp[s] = <<>>)
        => (loop.pc \notin {"raised1", "raised2"} /\ Len(loop.good[s]) = 0)

\* The loop has matched slot s in the cycle in progress.
Matched(s) == loop.pc = "draw1" \/ (s = 1 /\ loop.pc = "match2")

\* The match g of query descriptors q against train descriptors t is the
\* nearest neighbour of its query descriptor and passes the ratio test
\* against every other train descriptor, of which there is at least one.
PassesRatio(g, q, t) ==
    /\ g.queryIdx \in 1..Len(q)
    /\ g.trainIdx \in 1..Len(t)
    /\ Len(t) >= 2
    /\ g.distance = Distance(q[g.queryIdx], t[g.trainIdx])
    /\ \A j \in 1..Len(t) \ {g.trainIdx} :
        g.distance * RATIO_DEN < RATIO_NUM * Distance(q[g.queryIdx], t[j])

\* The good matches of slot s are at most n and all pass the ratio test.
FilterWithin(s, n) ==
    /\ Len(loop.good[s]) <= n
    /\ Len(loop.desc_frame) < 2 => Len(loop.good[s]) = 0
    /\ \A i \in 1..Len(loop.good[s]) :
        PassesRatio(loop.good[s][i], loop.used_desc[s], loop.desc_frame)

\* C11 as stated: the good matches of m reference descriptors against n frame
\* descriptors number at most min(m, n), each has its best distance below
\* RATIO_THRESH times the second best, and no result set with fewer than two
\* neighbours is kept.
C11_RatioFilterMin ==
    \A s \in Slots :
        Matched(s) =>
            FilterWithin(s, Min(Len(loop.used_desc[s]), Len(loop.desc_frame)))

\* C11 amended: the good matches number at most m, one per reference
\* descriptor (and none when n < 2); each has its best distance below
\* RATIO_THRESH times the second best; no result set with fewer than two
\* neighbours is kept.
C11_RatioFilter ==
    \A s \in Slots :
        Matched(s) => FilterWithin(s, Len(loop.used_desc[s]))

\* C11 witness: three reference descriptors all have a good match in a frame
\* of two descriptors.
C11_Witness ==
    /\ loop.pc = "match2"
    /\ Len(loop.used_desc[1]) = 3
    /\ Len(loop.desc_frame) = 2
    /\ Len(loop.good[1]) = 3

\* The cycle that produced the frame of a chunk; 0 for no chunk.
ChunkCyc(chunk) == IF chunk = None THEN 0 ELSE chunk[1].cyc

\* The viewers inside their with frame_lock block.
Copying == {v \in ConcurrentViewers : viewer[v].pc = "copy"}

\* C12: with two generators running beside the loop, in every step each
\* viewer's chunks come from non-decreasing cycles; a chunk is the whole frame
\* some cycle published (the store's frame, if that cycle is the latest); no
\* viewer copies while the loop is writing last_frame; a viewer's step changes
\* nothing of another viewer, of the loop or of the store; and frame_lock is
\* held by a viewer only during its copy, never while it is stalled.
C12_ConcurrentViewers ==
    [][\A v \in ConcurrentViewers :
        /\ ChunkCyc(viewer'[v].last_chunk) >= ChunkCyc(viewer[v].last_chunk)
        /\ viewer'[v].chunks # viewer[v].chunks
           => /\ viewer'[v].chunks = viewer[v].chunks + 1
              /\ ChunkCyc(viewer'[v].last_chunk) \in 1..FrameCyc
              /\ ChunkCyc(viewer'[v].last_chunk) = FrameCyc
                 => viewer'[v].last_chunk = last_frame
        /\ ~(viewer'[v].pc = "copy" /\ loop'.pc = "w_frame")
        /\ viewer'[v] # viewer[v]
           => /\ \A w \in ConcurrentViewers \ {v} : viewer'[w] = viewer[w]
              /\ UNCHANGED <<loop, last_frame, shared_stats, stats_cyc,
                             stats_lock, stop_event, cap_open>>
        /\ (frame_lock' = "viewer") = (Cardinality(Copying') = 1)
        /\ Cardinality(Copying') <= 1]_vars

\* C12 witness: viewer 1 has emitted two chunks, the last from cycle 2, while
\* viewer 2 has emitted the frame of cycle 1 and is inside its copy.
C12_Witness ==
    /\ viewer[1].chunks = 2
    /\ ChunkCyc(viewer[1].last_chunk) = 2
    /\ viewer[2].chunks = 1
    /\ ChunkCyc(viewer[2].last_chunk) = 1
    /\ viewer[2].pc = "copy"

\* C13: whenever a generator reads the store and finds no frame, or a frame
\* not newer than the chunk it emitted last, its next step is the pause.
C13_PauseWhenStale ==
    [][\A v \in ConcurrentViewers :
        (/\ viewer[v].pc = "copy"
         /\ viewer'[v].pc # "copy"
         /\ last_frame = None \/ FrameCyc <= ChunkCyc(viewer[v].last_chunk))
        => viewer'[v].pc = "sleep"]_vars

\* C14: while last_frame is None a generator has emitted nothing and is not
\* encoding or yielding; every chunk emitted is a frame the loop published.
C14_NoChunkBeforeFrame ==
    \A v \in ConcurrentViewers :
        /\ last_frame = None
           => /\ viewer[v].chunks = 0
              /\ viewer[v].pc \in {"off", "check", "lock", "copy", "sleep", "done"}
        /\ viewer[v].pc \in {"encode", "yield"} => viewer[v].frame # None
        /\ viewer[v].chunks > 0 => ChunkCyc(viewer[v].last_chunk) \in 1..FrameCyc

\* C14 witness: viewer 1 found no frame and is pausing; the loop has
\* published since, and viewer 2 has emitted a chunk.
C14_Witness ==
    /\ viewer[1].pc = "sleep"
    /\ viewer[1].chunks = 0
    /\ viewer[2].chunks = 1
    /\ viewer[2].last_chunk = last_frame

\* C15: a step of get_stats, stats_html or mjpeg_generator leaves shared_stats,
\* last_frame and the registry unchanged; shared_stats and last_frame change
\* only in a step of processing_loop; the registry changes only in a step of
\* reload_logos, which never changes shared_stats or last_frame.
C15_SingleWriter ==
    [][/\ (reader' # reader \/ viewer' # viewer)
          => UNCHANGED <<shared_stats, last_frame, logo_img, kp, desc>>
       /\ (shared_stats' # shared_stats \/ last_frame' # last_frame)
          => (loop' # loop /\ UNCHANGED <<reader, reload, viewer>>)
       /\ Registry' # Registry
          => (reload' # reload /\ UNCHANGED <<loop, reader, viewer>>)
       /\ reload' # reload => UNCHANGED <<shared_stats, last_frame>>]_vars

\* C15 witness: the loop has published, a statistics reader has its copy, the
\* viewer has emitted a chunk, and a reload has replaced logo1.
C15_Witness ==
    /\ last_frame # None
    /\ shared_stats.last_update # 0
    /\ reader.copy # None
    /\ viewer[1].chunks = 1
    /\ reload.pc = "ret"
    /\ reload.response = "ok"
    /\ logo_img[1] # Logo1AtStartup

\* The request carries, for every slot it sets, the image that slot held
\* when the request arrived.
SameAsLoaded ==
    \A s \in Slots :
        reload.new_logo[s] # None
        => reload.new_logo[s][1] = reload.before[1].img[s]

\* The count a cycle publishes for a reference with descriptors d on frame f.
CountOn(d, f) == Len(GoodMatches(d, DetectDesc(f)))

\* C16: a reload of the images the slots already hold (a second reload of the
\* same images) leaves the registry as the first one left it, and with it the
\* match counts of a cycle on any given frame.
C16_ReloadIdempotent ==
    (reload.pc = "ret" /\ reload.response = "ok" /\ SameAsLoaded)
    => /\ Registry = reload.before[1]
       /\ \A s \in Slots : \A f \in Frames \ {Blank} :
            CountOn(desc[s], f) = CountOn(reload.before[1].desc[s], f)

\* C16 witness: logo1 was reloaded with the blank image, then reloaded with
\* the blank image again, and the loop is about to match a frame.
C16_Witness ==
    /\ reload.pc = "ret"
    /\ reload.count = 2
    /\ reload.response = "ok"
    /\ reload.new_logo = <<Some(Blank), None>>
    /\ reload.before[1].img[1] = Blank
    /\ loop.pc = "match1"

\* The loop step taken is part of an outage: the not-open test and its wait,
\* or a read that returns Absent and its backoff.
OutageStep ==
    /\ loop' # loop
    /\ \/ loop.pc = "top" /\ ~stop_event /\ ~cap_open
       \/ loop.pc = "wait_open"
       \/ loop.pc = "read" /\ loop'.cyc = loop.cyc
       \/ loop.pc = "backoff"

\* C17: a loop step of an outage only leads to the sleep and back to the top
\* of the loop; it does not reopen the source, end the thread, take a lock,
\* count a cycle or change shared_stats or last_frame; nothing ever reopens
\* the source; and while the loop waits it holds no lock a reader needs.
C17_OutageAbsorbed ==
    [][/\ OutageStep
          => /\ loop'.pc = (IF loop.pc = "top" THEN "wait_open"
                            ELSE IF loop.pc = "read" THEN "backoff" ELSE "top")
             /\ loop'.fps_counter = loop.fps_counter
             /\ UNCHANGED <<shared_stats, stats_cyc, last_frame, cap_open,
                            cap_released, stats_lock, frame_lock>>
       /\ cap_open' => cap_open
       /\ loop'.pc \in {"wait_open", "backoff"}
          => (stats_lock' # "loop" /\ frame_lock' # "loop")]_vars

\* C17 witness: the source is down after a cycle was published, the loop is
\* in its wait, and get_stats is copying the stale statistics.
C17_Witness ==
    /\ ~cap_open
    /\ ~stop_event
    /\ loop.pc = "wait_open"
    /\ WrittenBy(stats_cyc, 1)
    /\ last_frame # None
    /\ reader.pc = "get_stats"

\* The loop is inside a cycle: a frame was read and is not yet counted.
InCycle ==
    loop.pc \in {"extract", "match1", "match2", "draw1", "draw2", "lock_stats",
                 "w_logo1", "w_logo2", "w_update", "w_mem", "lock_frame",
                 "w_frame", "fps"}

\* The frames read whose cycle has been counted.
CountedCycles == IF InCycle THEN loop.cyc - 1 ELSE loop.cyc

\* C18: the end of a cycle counts it, and goes on to a commit exactly when a
\* whole window has elapsed; the commit, under stats_lock, writes
\* counter / elapsed, sets the counter to 0 and restarts the window at now;
\* nothing else changes fps or the counter.  Every fps committed has
\* elapsed >= 1 and a count >= 1, and until the first commit the counter is
\* the number of frames read.
C18_RateAccounting ==
    [][/\ (loop.pc = "fps" /\ loop' # loop)
          => /\ loop'.fps_counter = loop.fps_counter + 1
             /\ loop'.pc = (IF clock - loop.last_fps_time >= FPS_WINDOW
                            THEN "lock_fps" ELSE "top")
             /\ UNCHANGED shared_stats
       /\ (loop.pc = "w_fps" /\ loop' # loop)
          => /\ stats_lock = "loop"
             /\ loop.now - loop.last_fps_time >= FPS_WINDOW
             /\ loop.fps_counter >= 1
             /\ shared_stats'.fps = <<loop.fps_counter, loop.now - loop.last_fps_time>>
             /\ loop'.fps_counter = 0
             /\ loop'.last_fps_time = loop.now
       /\ shared_stats'.fps # shared_stats.fps => loop.pc = "w_fps"
       /\ loop'.fps_counter # loop.fps_counter => loop.pc \in {"fps", "w_fps"}
       /\ shared_stats'.fps = <<0, 1>>
          \/ (shared_stats'.fps[1] >= 1 /\ shared_stats'.fps[2] >= FPS_WINDOW)
       /\ FpsIsZero' => loop'.fps_counter = CountedCycles']_vars

\* C18 witness: two cycles were counted and committed over one second; the
\* counter is back at 0 and the window restarted.
C18_Witness ==
    /\ shared_stats.fps = <<2, 1>>
    /\ loop.fps_counter = 0
    /\ loop.last_fps_time = 2
    /\ loop.pc = "top"

\* The viewers inside their with frame_lock block.
InCopy == {v \in Viewers : viewer[v].pc = "copy"}

\* C19: the loop holds stats_lock only while it writes shared_stats and
\* frame_lock only while it assigns last_frame, never both; a reader holds
\* stats_lock, and a viewer frame_lock, only for its copy; nobody else holds
\* them; and whoever holds a lock can take its next step, which releases it.
C19_LockDiscipline ==
    /\ (stats_lock = "loop")
       = (loop.pc \in {"w_logo1", "w_logo2", "w_update", "w_mem", "w_fps"})
    /\ (frame_lock = "loop") = (loop.pc = "w_frame")
    /\ (stats_lock = "reader") = (reader.pc \in {"get_stats", "stats_html"})
    /\ (frame_lock = "viewer") = (Cardinality(InCopy) = 1)
    /\ Cardinality(InCopy) <= 1
    /\ stats_lock \in {Free, "loop", "reader"}
    /\ frame_lock \in {Free, "loop", "viewer"}
    /\ ~(stats_lock = "loop" /\ frame_lock = "loop")
    /\ stats_lock = "loop" \/ frame_lock = "loop" => ENABLED LoopStep
    /\ stats_lock = "reader" => ENABLED (get_stats \/ stats_html)
    /\ frame_lock = "viewer" => \E v \in InCopy : ENABLED ViewerCopy(v)

\* C19 witness: the loop waits for frame_lock while a viewer is inside its
\* copy, and get_stats is inside its copy under stats_lock.
C19_Witness ==
    /\ loop.pc = "lock_frame"
    /\ frame_lock = "viewer"
    /\ viewer[1].pc = "copy"
    /\ stats_lock = "reader"
    /\ reader.pc = "get_stats"

\* The cycle tags of shared_stats.
StatTags == {stats_cyc.logo1_matches, stats_cyc.logo2_matches, stats_cyc.last_update}

\* The tags and the timestamp never go back.
NeverBack ==
    /\ stats_cyc'.logo1_matches >= stats_cyc.logo1_matches
    /\ stats_cyc'.logo2_matches >= stats_cyc.logo2_matches
    /\ stats_cyc'.last_update >= stats_cyc.last_update
    /\ shared_stats'.last_update >= shared_stats.last_update
    /\ FrameCyc' >= FrameCyc

\* C20 as stated: the cycle of the statistics is the cycle of last_frame or
\* the one right after it, never behind, and neither ever goes back.
C20_OneAhead ==
    [][/\ \A c \in StatTags' : c \in {FrameCyc', FrameCyc' + 1}
       /\ NeverBack]_vars

\* C20 amended: the cycle of the statistics is never behind the cycle of
\* last_frame; it is ahead only while the loop is between the two publishes
\* of the cycle in progress, and is then that cycle; neither ever goes back.
C20_PublicationOrder ==
    [][/\ \A c \in StatTags' : c \in {FrameCyc', loop'.cyc}
       /\ FrameCyc' <= loop'.cyc
       /\ StatTags' # {FrameCyc'}
          => loop'.pc \in {"w_logo2", "w_update", "w_mem", "lock_frame", "w_frame"}
       /\ NeverBack]_vars

\* C20 witness: cycle 1 published nothing, cycle 2 has written its statistics
\* and not yet its frame: the statistics are two cycles ahead of the frame.
C20_Witness ==
    /\ WrittenBy(stats_cyc, 2)
    /\ FrameCyc = 0
    /\ loop.cyc = 2
    /\ loop.pc = "lock_frame"

====
